---- MODULE Spec2Model ----
(***************************************************************************)
(* MeetGenai UI: the App component (navigation, join flow), the two        *)
(* meeting forms, the localStorage store and the MeetingProcessModal       *)
(* status poller.                                                           *)
(*                                                                         *)
(* Strings are sequences of tokens: a token is a run of characters with    *)
(* no whitespace, "@" or "." in it, or one of the separators " ", "@",     *)
(* ".".  A link is <<scheme, hostname, rest...>> when it has a scheme.     *)
(***************************************************************************)
EXTENDS Integers, Sequences, FiniteSets, TLC

VARIABLES
    currentState,        \* App: 'landing' | 'options' | 'new-meeting' | 'existing-meeting'
                         \* ("unmounted": React removed the tree after an uncaught error)
    showNameModal,       \* App state
    showProcessModal,    \* App state
    showSummaryModal,    \* App state
    currentMeetingTitle, \* App state
    meetingSummary,      \* App state
    userName,            \* App state
    storage,             \* localStorage: [user, meetings], and whether setItem works
    now,                 \* Date.now(), a logical clock advanced by every store write
    savedMeetings,       \* ExistingMeetingForm state, loaded on mount
    currentStep,         \* MeetingProcessModal state
    progress,            \* MeetingProcessModal state
    effectInterval,      \* the interval the polling effect's pending cleanup will clear (0: none)
    activeIntervals,     \* timers created by setInterval and not yet cleared
    polls,               \* in-flight getStatus() calls, counted per interval that issued them
    joinReqs,            \* in-flight POST /api/join_meeting requests
    subs,                \* history: one record per form submission (StoreSpec: one
                         \* key number per saveMeeting call that returned)
    session,             \* history: what happened since the process modal was last opened
    lastEvent            \* history: the handler that ran last and what it found

vars == <<currentState, showNameModal, showProcessModal, showSummaryModal,
          currentMeetingTitle, meetingSummary, userName, storage, now,
          savedMeetings, currentStep, progress, effectInterval, activeIntervals,
          polls, joinReqs, subs, session, lastEvent>>

appVars == <<currentState, showNameModal, showProcessModal, showSummaryModal,
             currentMeetingTitle, meetingSummary, userName>>

-----------------------------------------------------------------------------
(* Bounds *)

\* form submissions made in one run
MaxSubmissions == 2

\* getStatus() calls pending at the same time
MaxInFlight == 2

\* StoreSpec: saveMeeting calls that repeat a (title, email) saved before
MaxResaves == 1

\* StoreSpec: writes of 'meetgenai_meetings' by something else than saveMeeting
MaxForeignWrites == 1

\* ProfileSpec: writes of the storage
MaxProfileWrites == 4

\* ProfileSpec: saveMeeting calls
MaxProfileSaves == 2

-----------------------------------------------------------------------------
(* Strings *)

\* String.prototype.trim
RECURSIVE TrimLeft(_)
TrimLeft(s) == IF s # <<>> /\ Head(s) = " " THEN TrimLeft(Tail(s)) ELSE s

RECURSIVE TrimRight(_)
TrimRight(s) ==
    IF s # <<>> /\ s[Len(s)] = " " THEN TrimRight(SubSeq(s, 1, Len(s) - 1)) ELSE s

Trim(s) == TrimRight(TrimLeft(s))

\* String.prototype.includes, on tokens
Includes(s, t) == \E i \in 1..Len(s) : s[i] = t

\* new URL(url) throws unless the text starts with a scheme
Schemes == {"https://"}

UrlParses(url) == url # <<>> /\ url[1] \in Schemes

\* the hostname of a link that parses
Hostname(url) == IF Len(url) >= 2 THEN url[2] ELSE ""

-----------------------------------------------------------------------------
(* Form validation: NewMeetingForm and ExistingMeetingForm *)

\* isValidUrl: the link parses and the text contains a platform name
isValidUrl(url) ==
    /\ UrlParses(url)
    /\ \/ Includes(url, "meet.google.com")
       \/ Includes(url, "zoom.us")
       \/ Includes(url, "teams.microsoft.com")

\* isValidEmail: /^[^\s@]+@[^\s@]+\.[^\s@]+$/
isValidEmail(email) ==
    /\ ~Includes(email, " ")
    /\ \E p \in 2..Len(email) :
          /\ email[p] = "@"
          /\ \A i \in 1..Len(email) : email[i] = "@" => i = p
          /\ \E q \in (p + 2)..(Len(email) - 1) : email[q] = "."

\* the keys of newErrors in ExistingMeetingForm.validateForm
ExistingFormErrors(formData) ==
    {f \in {"link", "email", "password"} :
        \/ f = "link" /\ (Trim(formData.link) = <<>> \/ ~isValidUrl(formData.link))
        \/ f = "email" /\ (Trim(formData.email) = <<>> \/ ~isValidEmail(formData.email))
        \/ f = "password" /\ Trim(formData.password) = <<>>}

\* validateForm with a slip: it stops at the first field that fails
NewFormErrorsFirstOnly(formData) ==
    IF Trim(formData.title) = <<>> THEN {"title"}
    ELSE IF "link" \in ExistingFormErrors(formData) THEN {"link"}
    ELSE IF "email" \in ExistingFormErrors(formData) THEN {"email"}
    ELSE ExistingFormErrors(formData)

\* the keys of newErrors in NewMeetingForm.validateForm
NewFormErrors(formData) ==
    {f \in {"title"} : Trim(formData.title) = <<>>} \cup ExistingFormErrors(formData)

\* the check with a slip: every name is passed on
NameAcceptedAny(name) == TRUE

\* NameEntryModal.handleSubmit: the name is passed on when this holds
NameAccepted(name) == Trim(name) # <<>> /\ Len(Trim(name)) >= 2

-----------------------------------------------------------------------------
(* utils/storage *)

\* a localStorage item: absent, the JSON of a value ("json": of a record for
\* the user, of an array of records for the meetings), text JSON.parse
\* rejects ("text"), or JSON of something that is no array ("nonarray")
AbsentItem == [kind |-> "absent", value |-> <<>>]

JsonItem(v) == [kind |-> "json", value |-> <<v>>]

TextItem == [kind |-> "text", value |-> <<>>]

NonArrayItem == [kind |-> "nonarray", value |-> <<>>]

\* the number of meetings saveMeeting keeps
HistoryCap == 10

\* getUser with a slip: a profile without a name when JSON.parse throws
getUserEmptyOnError(st) ==
    IF st.user.kind = "json" THEN st.user.value
    ELSE IF st.user.kind = "text" THEN <<[name |-> <<>>, savedAt |-> 0]>>
    ELSE <<>>

\* getUser: <<>> for null, <<user>> otherwise
getUser(st) == IF st.user.kind = "json" THEN st.user.value ELSE <<>>

\* getMeetings: the parsed array, [] when nothing is stored or JSON.parse
\* throws. A parsed value that is no array is returned as it is: the model
\* has no value for it, its callers ask saveMeetingThrows and MountLoad.
getMeetings(st) == IF st.meetings.kind = "json" THEN st.meetings.value[1] ELSE <<>>

\* hasUser with a slip: it says yes to everything
hasUserAlways(st) == TRUE

hasUser(st) == getUser(st) # <<>>

\* localStorage.setItem throws when the storage is full or switched off
setItemThrows(st) == ~st.writable

\* saveUser with a slip: the whole storage is written anew
saveUserResetsAll(st, name, t) ==
    IF setItemThrows(st) THEN st
    ELSE [st EXCEPT !.user = JsonItem([name |-> Trim(name), savedAt |-> t]),
                    !.meetings = AbsentItem]

\* saveUser at time t; nothing is written when setItem throws
saveUser(st, name, t) ==
    IF setItemThrows(st) THEN st
    ELSE [st EXCEPT !.user = JsonItem([name |-> Trim(name), savedAt |-> t])]

\* clearUser with a slip: the item stays
clearUserKeeps(st) == st

\* clearUser: removeItem
clearUser(st) == [st EXCEPT !.user = AbsentItem]

\* saveMeeting's userName with a slip: never set
OwnerNameNone(st) == <<>>

\* saveMeeting: userName: user?.name, <<>> for undefined
OwnerName(st) == IF getUser(st) = <<>> THEN <<>> ELSE <<getUser(st)[1].name>>

\* slice with a slip: nothing is cut
SliceKeepsAll(list, n) == list

\* Array.prototype.slice(0, n)
Slice(list, n) == SubSeq(list, 1, IF Len(list) < n THEN Len(list) ELSE n)

\* saveMeeting throws: meetings.filter is no function when getMeetings
\* returned something that is no array, and setItem may throw
saveMeetingThrows(st) == st.meetings.kind = "nonarray" \/ setItemThrows(st)

\* saveMeeting with a slip: the records with the same title and email stay
saveMeetingNoFilter(st, title, email, t) ==
    LET meetings == getMeetings(st)
        newMeeting == [id |-> t, title |-> Trim(title), email |-> Trim(email),
                       savedAt |-> t,
                       userName |-> OwnerName(st)]
        recentMeetings == Slice(<<newMeeting>> \o meetings, HistoryCap)
    IN  IF saveMeetingThrows(st) THEN st
        ELSE [st EXCEPT !.meetings = JsonItem(recentMeetings)]

\* saveMeeting with a slip: the new record is put last (push for unshift)
saveMeetingPush(st, title, email, t) ==
    LET meetings == getMeetings(st)
        newMeeting == [id |-> t, title |-> Trim(title), email |-> Trim(email),
                       savedAt |-> t,
                       userName |-> OwnerName(st)]
        keep(m) == ~(m.title = newMeeting.title /\ m.email = newMeeting.email)
        filteredMeetings == SelectSeq(meetings, keep) \o <<newMeeting>>
        recentMeetings == Slice(filteredMeetings, HistoryCap)
    IN  IF saveMeetingThrows(st) THEN st
        ELSE [st EXCEPT !.meetings = JsonItem(recentMeetings)]

\* saveMeeting at time t; generateId is taken to return a fresh id, the time.
\* Nothing is written when it throws.
saveMeeting(st, title, email, t) ==
    LET meetings == getMeetings(st)
        newMeeting == [id |-> t, title |-> Trim(title), email |-> Trim(email),
                       savedAt |-> t,
                       userName |-> OwnerName(st)]
        keep(m) == ~(m.title = newMeeting.title /\ m.email = newMeeting.email)
        filteredMeetings == <<newMeeting>> \o SelectSeq(meetings, keep)
        recentMeetings == Slice(filteredMeetings, HistoryCap)
    IN  IF saveMeetingThrows(st) THEN st
        ELSE [st EXCEPT !.meetings = JsonItem(recentMeetings)]

\* ExistingMeetingForm on mount: JSON.parse outside any try, then
\* savedMeetings.map in the render
MountLoad(st) ==
    [threw |-> st.meetings.kind \in {"text", "nonarray"},
     meetings |-> IF st.meetings.kind = "json" THEN st.meetings.value[1] ELSE <<>>]

-----------------------------------------------------------------------------
(* utils/api getStatus and the MeetingProcessModal polling effect *)

\* what the status endpoint may answer
StatusValues == {"not started", "Transcription", "Preprocessing",
                 "summary generation", "completed", "something else"}

\* a response to GET /api/get_status: a 2xx with {status} (or with no status
\* field), a 2xx whose body is no JSON, a non-2xx, or no response at all
StatusResponses ==
    [kind : {"2xx"}, status : StatusValues \cup {"undefined"}]
    \cup [kind : {"2xx-not-json", "non-2xx", "network-error"}, status : {"undefined"}]

\* getStatus with a slip: without the response.ok check, the body of an error
\* response is read like any other
getStatusNoOkCheck(resp) ==
    IF resp.kind \in {"2xx", "non-2xx"}
    THEN [threw |-> FALSE, status |-> resp.status]
    ELSE [threw |-> TRUE, status |-> "undefined"]

\* getStatus: throws on a non-2xx response, on a network error and on a body
\* that is no JSON; returns data.status otherwise
getStatus(resp) ==
    IF resp.kind = "2xx"
    THEN [threw |-> FALSE, status |-> resp.status]
    ELSE [threw |-> TRUE, status |-> "undefined"]

\* the switch with a slip: the case 'Preprocessing' is missing
StatusSwitchNoPreprocessing(status) ==
    CASE status = "not started" ->
            [nextStep |-> "joined", progressValue |-> 25, done |-> FALSE]
      [] status = "Transcription" ->
            [nextStep |-> "ended", progressValue |-> 50, done |-> FALSE]
      [] status = "summary generation" ->
            [nextStep |-> "generating", progressValue |-> 75, done |-> FALSE]
      [] status = "completed" ->
            [nextStep |-> "completed", progressValue |-> 100, done |-> TRUE]
      [] OTHER ->
            [nextStep |-> "joining", progressValue |-> 10, done |-> FALSE]

\* the switch of the interval callback
StatusSwitch(status) ==
    CASE status = "not started" ->
            [nextStep |-> "joined", progressValue |-> 25, done |-> FALSE]
      [] status \in {"Transcription", "Preprocessing"} ->
            [nextStep |-> "ended", progressValue |-> 50, done |-> FALSE]
      [] status = "summary generation" ->
            [nextStep |-> "generating", progressValue |-> 75, done |-> FALSE]
      [] status = "completed" ->
            [nextStep |-> "completed", progressValue |-> 100, done |-> TRUE]
      [] OTHER ->
            [nextStep |-> "joining", progressValue |-> 10, done |-> FALSE]

\* setInterval hands out an id no live timer or pending callback holds
IntervalIds == 1..(MaxInFlight + 2)

FreshInterval(timers) ==
    LET free == {i \in IntervalIds : i \notin timers /\ polls[i] = 0}
    IN  CHOOSE i \in free : \A j \in free : i <= j

InFlight == LET RECURSIVE Sum(_)
                Sum(S) == IF S = {} THEN 0
                          ELSE LET i == CHOOSE x \in S : TRUE
                               IN  polls[i] + Sum(S \ {i})
            IN  Sum(IntervalIds)

-----------------------------------------------------------------------------
(* What the user may type and what the remote side may answer *)

Titles == {<<>>, <<" ">>, <<"Standup">>, <<"Retro">>}

Links == {<<>>,
          <<"zoom.us">>,
          <<"https://", "meet.google.com", "/abc">>,
          <<"https://", "evil.example", "/abc">>,
          <<"https://", "evil.example", "/", "zoom.us">>}

Emails == {<<>>, <<"a", "@", "b">>, <<"a", "@", "b", ".", "com">>}

Passwords == {<<>>, <<"pw">>}

Names == {<<>>, <<"A">>, <<" ", "A", "l">>}

NewFormInputs == [title : Titles, link : Links, email : Emails, password : Passwords]

ExistingFormInputs == [link : Links, email : Emails, password : Passwords]

\* a response to POST /api/join_meeting
JoinResponses == {"2xx", "2xx-not-json", "non-2xx-message", "non-2xx-not-json",
                  "network-error"}

\* the remote side accepted the join request
Accepted(resp) == resp \in {"2xx", "2xx-not-json"}

-----------------------------------------------------------------------------
(* History variables *)

\* a handler the claims do not single out
OtherEvent == [type |-> "other"]

\* the poll results of the §8 sequence
Script == <<"not started", "Transcription", "summary generation", "completed">>

\* a session opened by submission k: the poll results handled so far while
\* they follow Script from the stage joining (<<"off">> once they do not), the
\* stage after each, the calls of onComplete (2: two or more), and whether a
\* timer fired after onComplete
NewSession(k) ==
    [sub |-> k,
     results |-> IF currentStep = "joining" THEN <<>> ELSE <<"off">>,
     steps |-> <<>>, onCompleteCalls |-> 0, tickAfterCompleted |-> FALSE]

NoSession ==
    [sub |-> 0, results |-> <<>>, steps |-> <<>>, onCompleteCalls |-> 0,
     tickAfterCompleted |-> FALSE]

\* the record of a submission that passed validation: the join requests
\* issued for it, whether the remote side accepted one, and whether
\* saveMeeting ran for it
NewSub == [joinCalls |-> 1, joinOK |-> FALSE, saved |-> FALSE]

\* the record of a getStatus() call that settled with resp
PollEvent(resp) ==
    [type |-> "poll",
     response |-> IF resp.kind = "2xx" THEN "2xx" ELSE "failed",
     status |-> resp.status]

\* the record of a run of NameEntryModal.handleSubmit
NameEvent(name) == [type |-> "name", name |-> name]

\* the record of a run of a form's submit handler
SubmitEvent(form, formData, errors) ==
    [type |-> "submit", form |-> form, data |-> formData, errors |-> errors]

-----------------------------------------------------------------------------
(* Init *)

EmptyStorage == [user |-> AbsentItem, meetings |-> AbsentItem, writable |-> TRUE]

\* a first visit: nothing is stored
Init ==
    /\ storage = EmptyStorage
    /\ now = 0
    /\ currentState = "landing"
    /\ showNameModal = FALSE
    /\ showProcessModal = FALSE
    /\ showSummaryModal = FALSE
    /\ currentMeetingTitle = <<>>
    /\ meetingSummary = ""
    /\ userName = IF getUser(storage) = <<>> THEN <<>> ELSE getUser(storage)[1].name
    /\ savedMeetings = <<>>
    /\ currentStep = "joining"
    /\ progress = 0
    /\ effectInterval = 0
    /\ activeIntervals = {}
    /\ polls = [i \in IntervalIds |-> 0]
    /\ joinReqs = {}
    /\ subs = <<>>
    /\ session = NoSession
    /\ lastEvent = OtherEvent

-----------------------------------------------------------------------------
(* React: rendering App and the polling effect of MeetingProcessModal *)

\* a modal covers the page: the page under it takes no clicks
NoOverlay == ~showNameModal /\ ~showProcessModal /\ ~showSummaryModal

\* the effect with a slip: it returns no cleanup, the old interval stays
PollingEffectNoCleanup(timers) ==
    IF showProcessModal'
    THEN /\ activeIntervals' = timers \cup {FreshInterval(timers)}
         /\ effectInterval' = FreshInterval(timers)
    ELSE /\ activeIntervals' = timers
         /\ effectInterval' = 0

\* useEffect(..., [isOpen, onComplete]): the cleanup of the previous run clears
\* its interval, then a new interval is created when isOpen. timers: the
\* timers the handler left.
PollingEffect(timers) ==
    LET cleaned == timers \ {effectInterval}
    IN  IF showProcessModal'
        THEN /\ activeIntervals' = cleaned \cup {FreshInterval(cleaned)}
             /\ effectInterval' = FreshInterval(cleaned)
        ELSE /\ activeIntervals' = cleaned
             /\ effectInterval' = 0

\* App renders again when a handler changed its state; handleProcessComplete
\* is then a new function, so the effect runs again
Render(timers) ==
    IF appVars' # appVars
    THEN PollingEffect(timers)
    ELSE activeIntervals' = timers /\ UNCHANGED effectInterval

\* ExistingMeetingForm is unmounted when the screen changes
Unmount == savedMeetings' = <<>>

pollerVars == <<currentStep, progress, polls, session>>

-----------------------------------------------------------------------------
(* App: navigation *)

handleGetStarted ==
    /\ currentState = "landing" /\ NoOverlay
    /\ IF ~hasUser(storage)
       THEN showNameModal' = TRUE /\ UNCHANGED currentState
       ELSE currentState' = "options" /\ UNCHANGED showNameModal
    /\ UNCHANGED <<showProcessModal, showSummaryModal, currentMeetingTitle,
                   meetingSummary, userName>>
    /\ Render(activeIntervals)
    /\ lastEvent' = OtherEvent
    /\ UNCHANGED <<storage, now, savedMeetings, joinReqs, subs, pollerVars>>

\* NameEntryModal.handleSubmit, then App.handleNameSubmit when the name
\* passes; when saveUser throws there, the handler ends before any setState
NameEntrySubmit(name) ==
    /\ showNameModal
    /\ IF NameAccepted(name) /\ ~setItemThrows(storage)
       THEN /\ storage' = saveUser(storage, Trim(name), now + 1)
            /\ now' = now + 1
            /\ userName' = Trim(name)
            /\ showNameModal' = FALSE
            /\ currentState' = "options"
       ELSE UNCHANGED <<storage, now, userName, showNameModal, currentState>>
    /\ UNCHANGED <<showProcessModal, showSummaryModal, currentMeetingTitle,
                   meetingSummary>>
    /\ Render(activeIntervals)
    /\ lastEvent' = NameEvent(name)
    /\ UNCHANGED <<savedMeetings, joinReqs, subs, pollerVars>>

NameEntryClose ==
    /\ showNameModal
    /\ showNameModal' = FALSE
    /\ UNCHANGED <<currentState, showProcessModal, showSummaryModal,
                   currentMeetingTitle, meetingSummary, userName>>
    /\ Render(activeIntervals)
    /\ lastEvent' = OtherEvent
    /\ UNCHANGED <<storage, now, savedMeetings, joinReqs, subs, pollerVars>>

Navigate(from, to) ==
    /\ currentState \in from /\ NoOverlay
    /\ currentState' = to
    /\ UNCHANGED <<showNameModal, showProcessModal, showSummaryModal,
                   currentMeetingTitle, meetingSummary, userName>>
    /\ Render(activeIntervals)
    /\ lastEvent' = OtherEvent
    /\ UNCHANGED <<storage, now, joinReqs, subs, pollerVars>>

handleBackToLanding ==
    Navigate({"options"}, "landing") /\ Unmount

handleBackToOptions ==
    Navigate({"new-meeting", "existing-meeting"}, "options")
    /\ Unmount

handleNewMeeting ==
    Navigate({"options"}, "new-meeting") /\ Unmount

\* the record of ExistingMeetingForm's mount
MountEvent(load) == [type |-> "mount", threw |-> load.threw]

\* ExistingMeetingForm mounts and loads the history; an error thrown there is
\* caught by nothing and React removes the whole tree
handleExistingMeeting ==
    /\ currentState = "options" /\ NoOverlay
    /\ LET load == MountLoad(storage)
       IN  /\ currentState' = IF load.threw THEN "unmounted" ELSE "existing-meeting"
           /\ savedMeetings' = load.meetings
           /\ lastEvent' = MountEvent(load)
    /\ UNCHANGED <<showNameModal, showProcessModal, showSummaryModal,
                   currentMeetingTitle, meetingSummary, userName>>
    /\ Render(activeIntervals)
    /\ UNCHANGED <<storage, now, joinReqs, subs, pollerVars>>

handleCloseSummaryModal ==
    /\ showSummaryModal
    /\ showSummaryModal' = FALSE
    /\ currentState' = "landing"
    /\ UNCHANGED <<showNameModal, showProcessModal, currentMeetingTitle,
                   meetingSummary, userName>>
    /\ Render(activeIntervals)
    /\ Unmount
    /\ lastEvent' = OtherEvent
    /\ UNCHANGED <<storage, now, joinReqs, subs, pollerVars>>

-----------------------------------------------------------------------------
(* The join flow *)

\* the call with a slip: the password goes where the email belongs
SavedFieldsWithPassword(meetingData) ==
    [title |-> meetingData.title, email |-> meetingData.password]

\* what App.handleJoinMeeting passes to saveMeeting
SavedFields(meetingData) ==
    [title |-> meetingData.title, email |-> meetingData.email]

\* App.handleJoinMeeting up to its await, for submission k; reqs: the join
\* requests still pending. saveMeeting is called outside the try: when it
\* throws, the rest of the handler does not run.
handleJoinMeeting(k, meetingData, reqs) ==
    IF saveMeetingThrows(storage)
    THEN /\ joinReqs' = reqs
         /\ UNCHANGED <<appVars, storage, now, effectInterval, activeIntervals,
                        savedMeetings, pollerVars>>
    ELSE /\ storage' = saveMeeting(storage, SavedFields(meetingData).title,
                                   SavedFields(meetingData).email, now + 1)
         /\ now' = now + 1
         /\ currentMeetingTitle' = meetingData.title
         /\ showProcessModal' = TRUE
         /\ UNCHANGED <<currentState, showNameModal, showSummaryModal,
                        meetingSummary, userName>>
         /\ Render(activeIntervals)
         /\ joinReqs' = reqs \cup {[sub |-> k, src |-> "app", data |-> meetingData]}
         /\ session' = IF showProcessModal THEN session ELSE NewSession(k)
         /\ UNCHANGED <<savedMeetings, currentStep, progress, polls>>

\* NewMeetingForm.handleSubmit up to its await
NewFormSubmit(formData) ==
    /\ currentState = "new-meeting" /\ NoOverlay
    /\ Len(subs) < MaxSubmissions
    /\ LET errors == NewFormErrors(formData)
           k == Len(subs) + 1
       IN  /\ IF errors # {}
              THEN UNCHANGED <<subs, joinReqs>>
              ELSE /\ subs' = Append(subs, NewSub)
                   /\ joinReqs' = joinReqs \cup
                                    {[sub |-> k, src |-> "form", data |-> formData]}
           /\ lastEvent' = SubmitEvent("new", formData, errors)
    /\ UNCHANGED <<appVars, storage, now, savedMeetings, effectInterval,
                   activeIntervals, pollerVars>>

\* the alert NewMeetingForm.handleSubmit shows once the response is in: a
\* body that is no JSON makes response.json() throw into the catch
FormAlert(resp) ==
    CASE resp = "2xx" -> "none"
      [] resp = "non-2xx-message" -> "Failed to join"
      [] OTHER -> "Network error"

\* the record of the end of NewMeetingForm.handleSubmit
JoinEvent(resp) == [type |-> "join", response |-> resp, alert |-> FormAlert(resp)]

\* NewMeetingForm.handleSubmit after its await
NewFormJoinResponse(r, resp) ==
    /\ r \in joinReqs /\ r.src = "form"
    /\ IF resp = "2xx"
       THEN /\ handleJoinMeeting(r.sub, r.data, joinReqs \ {r})
            /\ subs' = [subs EXCEPT
                          ![r.sub].joinOK = TRUE,
                          ![r.sub].saved = ~saveMeetingThrows(storage),
                          ![r.sub].joinCalls =
                              IF saveMeetingThrows(storage) THEN @ ELSE @ + 1]
       ELSE /\ joinReqs' = joinReqs \ {r}
            /\ subs' = [subs EXCEPT ![r.sub].joinOK = Accepted(resp)]
            /\ UNCHANGED <<appVars, storage, now, savedMeetings, effectInterval,
                           activeIntervals, pollerVars>>
    /\ lastEvent' = JoinEvent(resp)

\* ExistingMeetingForm.handleSubmit with the m-th saved meeting selected
ExistingFormSubmit(m, formData) ==
    /\ currentState = "existing-meeting" /\ NoOverlay
    /\ Len(subs) < MaxSubmissions
    /\ m \in 1..Len(savedMeetings)
    /\ LET errors == ExistingFormErrors(formData)
           k == Len(subs) + 1
           meetingData == [title |-> savedMeetings[m].title, link |-> formData.link,
                           email |-> formData.email, password |-> formData.password]
       IN  /\ IF errors # {}
              THEN UNCHANGED <<appVars, storage, now, savedMeetings, effectInterval,
                               activeIntervals, joinReqs, subs, pollerVars>>
              ELSE /\ subs' = Append(subs,
                                     IF saveMeetingThrows(storage)
                                     THEN [NewSub EXCEPT !.joinCalls = 0]
                                     ELSE [NewSub EXCEPT !.saved = TRUE])
                   /\ handleJoinMeeting(k, meetingData, joinReqs)
           /\ lastEvent' = SubmitEvent("existing", formData, errors)

\* App.handleJoinMeeting after its await: the outcome is only logged
AppJoinResponse(r, resp) ==
    /\ r \in joinReqs /\ r.src = "app"
    /\ joinReqs' = joinReqs \ {r}
    /\ subs' = [subs EXCEPT ![r.sub].joinOK = @ \/ Accepted(resp)]
    /\ lastEvent' = OtherEvent
    /\ UNCHANGED <<appVars, storage, now, savedMeetings, effectInterval,
                   activeIntervals, pollerVars>>

-----------------------------------------------------------------------------
(* The poller *)

\* a timer fires: the callback calls getStatus() and awaits it
Tick(i) ==
    /\ i \in activeIntervals
    /\ InFlight < MaxInFlight
    /\ polls' = [polls EXCEPT ![i] = @ + 1]
    /\ session' = [session EXCEPT
                      !.tickAfterCompleted = @ \/ session.onCompleteCalls > 0]
    /\ lastEvent' = OtherEvent
    /\ UNCHANGED <<appVars, storage, now, savedMeetings, currentStep, progress,
                   effectInterval, activeIntervals, joinReqs, subs>>

\* the callback with a slip: 'completed' stops the timer but onComplete is
\* not called
IntervalCallbackNoOnComplete(resp) ==
    LET r == getStatus(resp)
        sw == StatusSwitch(r.status)
    IN  IF r.threw
        THEN [setState |-> FALSE, nextStep |-> "joining", progressValue |-> 0,
              clearOwn |-> FALSE, callOnComplete |-> FALSE]
        ELSE [setState |-> TRUE, nextStep |-> sw.nextStep,
              progressValue |-> sw.progressValue,
              clearOwn |-> sw.done, callOnComplete |-> FALSE]

\* what the interval callback does once getStatus() has settled with resp
IntervalCallback(resp) ==
    LET r == getStatus(resp)
        sw == StatusSwitch(r.status)
    IN  IF r.threw
        THEN [setState |-> FALSE, nextStep |-> "joining", progressValue |-> 0,
              clearOwn |-> FALSE, callOnComplete |-> FALSE]
        ELSE [setState |-> TRUE, nextStep |-> sw.nextStep,
              progressValue |-> sw.progressValue,
              clearOwn |-> sw.done, callOnComplete |-> sw.done]

\* the session's record of a handled poll result
Recorded(sess, status, step, called) ==
    LET results == Append(sess.results, status)
        onScript == /\ sess.results # <<"off">>
                    /\ Len(results) <= Len(Script)
                    /\ results = SubSeq(Script, 1, Len(results))
        calls == IF called /\ sess.onCompleteCalls < 2
                 THEN sess.onCompleteCalls + 1 ELSE sess.onCompleteCalls
    IN  [sess EXCEPT !.results = IF onScript THEN results ELSE <<"off">>,
                     !.steps = IF onScript THEN Append(sess.steps, step) ELSE <<>>,
                     !.onCompleteCalls = calls]

\* a pending getStatus() of interval i settles and the callback resumes
PollSettles(i, resp) ==
    /\ polls[i] > 0
    /\ polls' = [polls EXCEPT ![i] = @ - 1]
    /\ LET cb == IntervalCallback(resp)
           timers == IF cb.clearOwn THEN activeIntervals \ {i} ELSE activeIntervals
       IN  /\ IF cb.callOnComplete
              THEN \* App.handleProcessComplete
                   /\ meetingSummary' = "Summary completed!"
                   /\ showProcessModal' = FALSE
                   /\ showSummaryModal' = TRUE
                   /\ UNCHANGED <<currentState, showNameModal, currentMeetingTitle,
                                  userName>>
              ELSE UNCHANGED appVars
           /\ Render(timers)
           /\ IF cb.setState
              THEN /\ currentStep' = cb.nextStep
                   /\ progress' = cb.progressValue
                   /\ session' = Recorded(session, getStatus(resp).status,
                                          cb.nextStep, cb.callOnComplete)
              ELSE UNCHANGED <<currentStep, progress, session>>
           /\ lastEvent' = PollEvent(resp)
    /\ UNCHANGED <<storage, now, savedMeetings, joinReqs, subs>>

-----------------------------------------------------------------------------

Next ==
    \/ handleGetStarted
    \/ \E name \in Names : NameEntrySubmit(name)
    \/ NameEntryClose
    \/ handleBackToLanding
    \/ handleBackToOptions
    \/ handleNewMeeting
    \/ handleExistingMeeting
    \/ handleCloseSummaryModal
    \/ \E formData \in NewFormInputs : NewFormSubmit(formData)
    \/ \E r \in joinReqs, resp \in JoinResponses : NewFormJoinResponse(r, resp)
    \/ \E m \in 1..HistoryCap, formData \in ExistingFormInputs :
          ExistingFormSubmit(m, formData)
    \/ \E r \in joinReqs, resp \in JoinResponses : AppJoinResponse(r, resp)
    \/ \E i \in IntervalIds : Tick(i)
    \/ \E i \in IntervalIds, resp \in StatusResponses : PollSettles(i, resp)

Spec == Init /\ [][Next]_vars

\* the answer 'completed' of the status endpoint
CompletedResponse == [kind |-> "2xx", status |-> "completed"]

\* two submissions of the new-meeting form
FirstMeeting ==
    [title |-> <<"Standup">>, link |-> <<"https://", "meet.google.com", "/abc">>,
     email |-> <<"a", "@", "b", ".", "com">>, password |-> <<"pw">>]

SecondMeeting == [FirstMeeting EXCEPT !.title = <<"Retro">>]

\* a session has just been armed: the user gave a name, submitted the
\* new-meeting form twice, and the first join request was answered 2xx, so
\* handleJoinMeeting has run for it; the second request is pending
LiveInit ==
    /\ storage = saveMeeting(saveUser(EmptyStorage, <<"A", "l">>, 1),
                             FirstMeeting.title, FirstMeeting.email, 2)
    /\ now = 2
    /\ currentState = "new-meeting"
    /\ showNameModal = FALSE
    /\ showProcessModal = TRUE
    /\ showSummaryModal = FALSE
    /\ currentMeetingTitle = FirstMeeting.title
    /\ meetingSummary = ""
    /\ userName = <<"A", "l">>
    /\ savedMeetings = <<>>
    /\ currentStep = "joining"
    /\ progress = 0
    /\ effectInterval = 1
    /\ activeIntervals = {1}
    /\ polls = [i \in IntervalIds |-> 0]
    /\ joinReqs = {[sub |-> 1, src |-> "app", data |-> FirstMeeting],
                   [sub |-> 2, src |-> "form", data |-> SecondMeeting]}
    /\ subs = <<[joinCalls |-> 2, joinOK |-> TRUE, saved |-> TRUE], NewSub>>
    /\ session = [sub |-> 1, results |-> <<>>, steps |-> <<>>,
                  onCompleteCalls |-> 0, tickAfterCompleted |-> FALSE]
    /\ lastEvent = JoinEvent("2xx")

\* what acts while the process modal covers the page: the timers and the
\* responses to the requests sent
LiveNext ==
    \/ \E i \in IntervalIds : Tick(i)
    \/ \E i \in IntervalIds, resp \in StatusResponses : PollSettles(i, resp)
    \/ \E r \in joinReqs, resp \in JoinResponses : NewFormJoinResponse(r, resp)
    \/ \E r \in joinReqs, resp \in JoinResponses : AppJoinResponse(r, resp)

\* the scheduling: a running timer goes on firing (setInterval), and a
\* getStatus() call that is pending again and again is at some time answered
\* 'completed' (the endpoint answers, and from some time on with 'completed')
LiveSpec ==
    /\ LiveInit
    /\ [][LiveNext]_vars
    /\ WF_vars(\E i \in IntervalIds : Tick(i))
    /\ SF_vars(\E i \in IntervalIds : PollSettles(i, CompletedResponse))

-----------------------------------------------------------------------------
(* The store on its own: saveMeeting called with one (title, email) after   *)
(* another, and the existing-meeting screen reading what is stored.        *)

\* the (title, email) pairs saved: one more than the store keeps
MaxKeys == HistoryCap + 1

StoreTitle(a) == [i \in 1..a |-> "t"]

StoreEmail(b) == [i \in 1..b |-> "u"] \o <<"@", "b", ".", "com">>

\* the j-th pair: pairwise different
StoreKey(j) == [title |-> StoreTitle(1 + ((j - 1) \div 3)),
                email |-> StoreEmail(1 + ((j - 1) % 3))]

\* the text as typed with blanks around it
Pad(str, pad) == IF pad THEN <<" ">> \o str \o <<" ">> ELSE str

\* the pairs saved so far are StoreKey(1) .. StoreKey(KeysUsed)
KeysUsed ==
    IF subs = <<>> THEN 0
    ELSE CHOOSE j \in 1..MaxKeys :
            /\ \E i \in 1..Len(subs) : subs[i] = j
            /\ \A i \in 1..Len(subs) : subs[i] <= j

\* the writes of the store so far were all saveMeeting's
OnlySaveMeetingWrote == now = 1 + Len(subs)

\* an array another writer left: longer than the store keeps
LongHistory ==
    [i \in 1..(HistoryCap + 2) |->
        [id |-> 0, title |-> StoreTitle(MaxKeys + i), email |-> StoreEmail(1),
         savedAt |-> 0, userName |-> <<>>]]

ForeignItems == {TextItem, NonArrayItem, JsonItem(LongHistory)}

\* the record of a saveMeeting call
SaveEvent(title, email, threw) ==
    [type |-> "saveMeeting", title |-> title, email |-> email, threw |-> threw]

\* a returning user on the options screen: the state NameEntrySubmit leaves
StoreInit ==
    /\ storage = saveUser(EmptyStorage, <<"A", "l">>, 1)
    /\ now = 1
    /\ currentState = "options"
    /\ showNameModal = FALSE
    /\ showProcessModal = FALSE
    /\ showSummaryModal = FALSE
    /\ currentMeetingTitle = <<>>
    /\ meetingSummary = ""
    /\ userName = getUser(storage)[1].name
    /\ savedMeetings = <<>>
    /\ currentStep = "joining"
    /\ progress = 0
    /\ effectInterval = 0
    /\ activeIntervals = {}
    /\ polls = [i \in IntervalIds |-> 0]
    /\ joinReqs = {}
    /\ subs = <<>>
    /\ session = NoSession
    /\ lastEvent = OtherEvent

\* saveMeeting(title, email) is called with the j-th pair: a pair saved
\* before or the next new one
StoreSaveMeeting(j, pad) ==
    /\ currentState = "options"
    /\ j <= KeysUsed + 1
    /\ j <= KeysUsed => Len(subs) - KeysUsed < MaxResaves
    /\ LET title == Pad(StoreKey(j).title, pad)
           email == Pad(StoreKey(j).email, pad)
       IN  /\ storage' = saveMeeting(storage, title, email, now + 1)
           /\ lastEvent' = SaveEvent(title, email, saveMeetingThrows(storage))
    /\ IF saveMeetingThrows(storage)
       THEN UNCHANGED <<now, subs>>
       ELSE now' = now + 1 /\ subs' = Append(subs, j)
    /\ UNCHANGED <<appVars, savedMeetings, effectInterval, activeIntervals,
                   joinReqs, pollerVars>>

\* something else of the origin (another tab, an older build, the user)
\* writes the item 'meetgenai_meetings'
ForeignWrite(item) ==
    /\ currentState = "options"
    /\ now - 1 - Len(subs) < MaxForeignWrites
    /\ storage' = [storage EXCEPT !.meetings = item]
    /\ now' = now + 1
    /\ lastEvent' = OtherEvent
    /\ UNCHANGED <<appVars, savedMeetings, effectInterval, activeIntervals,
                   joinReqs, subs, pollerVars>>

StoreNext ==
    \/ \E j \in 1..MaxKeys, pad \in BOOLEAN : StoreSaveMeeting(j, pad)
    \/ \E item \in ForeignItems : ForeignWrite(item)
    \/ handleExistingMeeting
    \/ handleBackToOptions

StoreSpec == StoreInit /\ [][StoreNext]_vars

-----------------------------------------------------------------------------
(* The user profile next to the history: saveUser, clearUser and            *)
(* saveMeeting called in any order, on a storage that may stop taking      *)
(* writes and whose user item another writer may leave unparseable.        *)

\* names as passed to saveUser: the store does not validate them
ProfileNames == {<<>>, <<"B", "o">>, <<" ", "B", "o", " ">>}

\* the record of a call of the user store
UserEvent(op, name, threw) == [type |-> op, name |-> name, threw |-> threw]

ProfileWrites == now - 1

StoreSaveUser(name) ==
    /\ ProfileWrites < MaxProfileWrites
    /\ storage' = saveUser(storage, name, now + 1)
    /\ now' = IF setItemThrows(storage) THEN now ELSE now + 1
    /\ lastEvent' = UserEvent("saveUser", name, setItemThrows(storage))
    /\ UNCHANGED <<appVars, savedMeetings, effectInterval, activeIntervals,
                   joinReqs, subs, pollerVars>>

StoreClearUser ==
    /\ ProfileWrites < MaxProfileWrites
    /\ storage' = clearUser(storage)
    /\ now' = now + 1
    /\ lastEvent' = UserEvent("clearUser", <<>>, FALSE)
    /\ UNCHANGED <<appVars, savedMeetings, effectInterval, activeIntervals,
                   joinReqs, subs, pollerVars>>

\* getUser(), hasUser() and getMeetings() are called
StoreRead ==
    /\ lastEvent' = UserEvent("read", <<>>, FALSE)
    /\ UNCHANGED <<appVars, storage, now, savedMeetings, effectInterval,
                   activeIntervals, joinReqs, subs, pollerVars>>

\* something else of the origin leaves the item 'meetgenai_user' unparseable
ForeignUserWrite ==
    /\ ProfileWrites < MaxProfileWrites
    /\ storage' = [storage EXCEPT !.user = TextItem]
    /\ now' = now + 1
    /\ lastEvent' = OtherEvent
    /\ UNCHANGED <<appVars, savedMeetings, effectInterval, activeIntervals,
                   joinReqs, subs, pollerVars>>

\* the storage fills up or is switched off: setItem throws from now on
StorageFails ==
    /\ storage.writable
    /\ storage' = [storage EXCEPT !.writable = FALSE]
    /\ lastEvent' = OtherEvent
    /\ UNCHANGED <<appVars, now, savedMeetings, effectInterval, activeIntervals,
                   joinReqs, subs, pollerVars>>

ProfileSaveMeeting(j, pad) ==
    /\ Len(subs) < MaxProfileSaves
    /\ ProfileWrites < MaxProfileWrites
    /\ StoreSaveMeeting(j, pad)

ProfileNext ==
    \/ \E name \in ProfileNames : StoreSaveUser(name)
    \/ StoreClearUser
    \/ StoreRead
    \/ ForeignUserWrite
    \/ StorageFails
    \/ \E j \in 1..MaxKeys, pad \in BOOLEAN : ProfileSaveMeeting(j, pad)

ProfileSpec == StoreInit /\ [][ProfileNext]_vars

-----------------------------------------------------------------------------
(* Cancellation and completion *)

\* C1: a poll result that arrives after the timer that issued it was cleared
\* (by the effect's cleanup) changes neither the stage nor the progress and
\* does not call onComplete.
CancelledPollHasNoEffect ==
    [][\A i \in IntervalIds :
          (/\ lastEvent'.type = "poll"
           /\ lastEvent'.response = "2xx"
           /\ polls'[i] < polls[i]
           /\ i \notin activeIntervals)
              => /\ currentStep' = currentStep
                 /\ progress' = progress
                 /\ session'.onCompleteCalls = session.onCompleteCalls]_vars

\* C2: onComplete is called when 'completed' is observed, and at most once
\* in a session.
OnCompleteExactlyOnce ==
    /\ session.onCompleteCalls <= 1
    /\ (/\ lastEvent.type = "poll"
        /\ lastEvent.response = "2xx"
        /\ lastEvent.status = "completed")
          => session.onCompleteCalls >= 1

ScriptStages == <<"joined", "ended", "generating", "completed">>

\* C3: in a session that starts at the stage joining, while the poll results
\* follow the sequence "not started", "Transcription", "summary generation",
\* "completed", the stages after them are joined, ended, generating,
\* completed in that order; onComplete has been called once when the
\* sequence is through and not before; and after 'completed' no timer is
\* left and none has fired.
ScriptedSessionRunsInOrder ==
    \A n \in 1..Len(Script) :
        session.results = SubSeq(Script, 1, n) =>
            /\ session.steps = SubSeq(ScriptStages, 1, n)
            /\ session.onCompleteCalls = IF n = Len(Script) THEN 1 ELSE 0
            /\ ~session.tickAfterCompleted
            /\ n = Len(Script) => activeIntervals = {}

ScriptedSessionCompleted ==
    /\ session.results = Script
    /\ currentStep = "completed"
    /\ showSummaryModal

\* C4: at most one getStatus() call is pending at any time.
AtMostOnePollInFlight == InFlight <= 1

\* the stage the spec's table gives for a remote status
StageOf(status) ==
    CASE status = "not started" -> "joined"
      [] status = "Transcription" -> "ended"
      [] status = "Preprocessing" -> "ended"
      [] status = "summary generation" -> "generating"
      [] status = "completed" -> "completed"
      [] OTHER -> "joining"

\* C5: after a poll that succeeded, the stage is the one the table gives for
\* the status it returned (a missing status included), whatever the stage
\* was before.
StageIsFunctionOfStatus ==
    (lastEvent.type = "poll" /\ lastEvent.response = "2xx")
        => currentStep = StageOf(lastEvent.status)

\* after the session's stage had reached completed, a late poll with no
\* status has taken it back to joining
FallbackFromLaterStage ==
    /\ lastEvent.type = "poll"
    /\ lastEvent.response = "2xx"
    /\ lastEvent.status = "undefined"
    /\ session.onCompleteCalls >= 1
    /\ progress = 10
    /\ currentStep = "joining"

\* C6: a poll whose remote call fails (a non-2xx response, a network error, a
\* body that is no JSON) changes neither the stage nor the progress, calls
\* nothing of App and clears no timer.
FailedPollChangesNothing ==
    [][(lastEvent'.type = "poll" /\ lastEvent'.response = "failed") =>
          /\ currentStep' = currentStep
          /\ progress' = progress
          /\ appVars' = appVars
          /\ session'.onCompleteCalls = session.onCompleteCalls
          /\ activeIntervals' = activeIntervals
          /\ effectInterval' = effectInterval]_vars

\* a poll failed at the stage generating and the session's timer is still
\* running
FailedPollTimerRunning ==
    /\ lastEvent.type = "poll"
    /\ lastEvent.response = "failed"
    /\ currentStep = "generating"
    /\ showProcessModal
    /\ effectInterval \in activeIntervals

-----------------------------------------------------------------------------
(* Submission *)

AllowedHosts == {"meet.google.com", "zoom.us", "teams.microsoft.com"}

\* C7: a submission whose link's hostname is not an allowed one ends in a
\* validation error, and no join request carries such a link.
ForeignHostIsRejected ==
    /\ (lastEvent.type = "submit" /\ Hostname(lastEvent.data.link) \notin AllowedHosts)
          => lastEvent.errors # {}
    /\ \A r \in joinReqs : Hostname(r.data.link) \in AllowedHosts

\* C8: a submission that passed validation has issued exactly one join
\* request.
OneJoinCallPerSubmission ==
    \A k \in 1..Len(subs) : subs[k].joinCalls = 1

\* C9: the history record of a submission is written only once the remote
\* side has accepted the submission's join request.
HistoryOnlyAfterJoinAccepted ==
    \A k \in 1..Len(subs) : subs[k].saved => subs[k].joinOK

\* C10: a timer of the session a submission opened runs only once the remote
\* side has accepted the submission's join request.
PollingOnlyAfterJoinAccepted ==
    \A k \in 1..Len(subs) :
        (session.sub = k /\ activeIntervals # {}) => subs[k].joinOK

-----------------------------------------------------------------------------
(* The history store *)

SameKey(m1, m2) == m1.title = m2.title /\ m1.email = m2.email

\* a saveMeeting call has just returned
JustSaved == lastEvent.type = "saveMeeting" /\ ~lastEvent.threw

\* C11: while saveMeeting alone wrote the store, no two records of the list
\* have the same title and email; and right after a call saveMeeting(t, e) the
\* first record has the trimmed t and e and the time of that call, and no
\* other record has that title and email.
SavedPairIsUniqueAndFirst ==
    LET list == getMeetings(storage)
    IN  /\ OnlySaveMeetingWrote =>
              \A a, b \in 1..Len(list) : a # b => ~SameKey(list[a], list[b])
        /\ JustSaved =>
              /\ list # <<>>
              /\ list[1].title = Trim(lastEvent.title)
              /\ list[1].email = Trim(lastEvent.email)
              /\ list[1].savedAt = now
              /\ \A a \in 2..Len(list) : ~SameKey(list[a], list[1])

\* a pair was saved, then another, then the first again with blanks around
\* it
PairSavedAgain ==
    /\ JustSaved
    /\ OnlySaveMeetingWrote
    /\ lastEvent.title # Trim(lastEvent.title)
    /\ \E a, b \in 1..Len(subs) :
          a < b /\ b < Len(subs) /\ subs[a] = subs[Len(subs)] /\ subs[b] # subs[a]

\* C12: after a saveMeeting call that returned, the stored history is an
\* array of at most 10 records, whatever was stored before.
HistoryAtMostCap ==
    JustSaved =>
        /\ storage.meetings.kind = "json"
        /\ Len(getMeetings(storage)) <= HistoryCap

\* a pair was saved into a store that held more records than the cap:
\* records another writer left are still in the list
SavedIntoLongHistory ==
    /\ JustSaved
    /\ Len(getMeetings(storage)) = HistoryCap
    /\ getMeetings(storage)[HistoryCap].id = 0

\* MaxKeys pairwise different pairs were saved into the empty store
AllKeysSavedOnce ==
    /\ OnlySaveMeetingWrote
    /\ Len(subs) = MaxKeys
    /\ \A a, b \in 1..Len(subs) : a # b => subs[a] # subs[b]

\* C13: after 11 pairwise different pairs were saved into the empty store,
\* the list has 10 records: the pairs in reverse order of saving, without the
\* one saved first.
EleventhSaveEvictsOldest ==
    AllKeysSavedOnce =>
        LET list == getMeetings(storage)
        IN  /\ Len(list) = HistoryCap
            /\ \A i \in 1..HistoryCap :
                  SameKey(list[i], StoreKey(subs[MaxKeys + 1 - i]))
            /\ \A i \in 1..HistoryCap : ~SameKey(list[i], StoreKey(subs[1]))

ElevenPairsSaved == AllKeysSavedOnce /\ JustSaved

\* C14: reading the history when the stored text does not parse gives the
\* empty list and throws nothing, in getMeetings and in the existing-meeting
\* screen's load on mount.
CorruptHistoryReadsEmpty ==
    storage.meetings.kind = "text" =>
        /\ getMeetings(storage) = <<>>
        /\ lastEvent.type = "mount" =>
              /\ ~lastEvent.threw
              /\ currentState = "existing-meeting"
              /\ savedMeetings = <<>>

\* passwords a user may have typed
TypedPasswords == (Passwords \ {<<>>}) \cup {<<"other">>}

\* C15: no stored record has a field for the password or holds a password's
\* text, in the history and in the user profile; and what a submission hands
\* to saveMeeting is the same for every password typed.
PasswordNeverStored ==
    /\ \A i \in 1..Len(getMeetings(storage)) :
          LET m == getMeetings(storage)[i]
          IN  /\ DOMAIN m = {"id", "title", "email", "savedAt", "userName"}
              /\ m.title \notin TypedPasswords
              /\ m.email \notin TypedPasswords
              /\ \A j \in 1..Len(m.userName) : m.userName[j] \notin TypedPasswords
    /\ \A i \in 1..Len(getUser(storage)) :
          /\ DOMAIN getUser(storage)[i] = {"name", "savedAt"}
          /\ getUser(storage)[i].name \notin TypedPasswords
    /\ \A r \in joinReqs, pw \in TypedPasswords :
          SavedFields([r.data EXCEPT !.password = pw]) = SavedFields(r.data)

\* a submission with a password was saved to the history
SubmissionWithPasswordSaved ==
    \E r \in joinReqs :
        /\ r.src = "app"
        /\ r.data.password \in TypedPasswords
        /\ getMeetings(storage) # <<>>
        /\ getMeetings(storage)[1].title = Trim(r.data.title)
        /\ getMeetings(storage)[1].email = Trim(r.data.email)

-----------------------------------------------------------------------------
(* Validation and the join outcome *)

\* the form's rule for a field is broken by the text typed into it
FieldViolated(f, text) ==
    \/ Trim(text) = <<>>
    \/ f = "link" /\ ~isValidUrl(text)
    \/ f = "email" /\ ~isValidEmail(text)

\* C16: a submit reports every field whose rule is broken, not the first
\* only; and when it reports one it issues no join request, writes nothing
\* to the store and opens no session.
AllViolationsReported ==
    [][lastEvent'.type = "submit" =>
          /\ lastEvent'.errors =
                {f \in DOMAIN lastEvent'.data : FieldViolated(f, lastEvent'.data[f])}
          /\ lastEvent'.errors # {} =>
                /\ joinReqs' = joinReqs
                /\ storage' = storage
                /\ subs' = subs
                /\ session' = session
                /\ showProcessModal' = showProcessModal
                /\ activeIntervals' = activeIntervals]_vars

\* a submit of the new-meeting form found all four fields broken
AllFourFieldsReported ==
    /\ lastEvent.type = "submit"
    /\ lastEvent.form = "new"
    /\ lastEvent.errors = {"title", "link", "email", "password"}
    /\ joinReqs = {}

\* C17: when the join request of the new-meeting form got a non-2xx
\* response, with or without a body that parses, the user is told the join
\* was refused and not that the network failed.
RejectedIsNotUnreachable ==
    (lastEvent.type = "join"
       /\ lastEvent.response \in {"non-2xx-message", "non-2xx-not-json"})
        => lastEvent.alert = "Failed to join"

-----------------------------------------------------------------------------
(* Sessions *)

\* the submissions with a join request pending or with the process modal open
ActiveSubs ==
    {r.sub : r \in joinReqs} \cup (IF showProcessModal THEN {session.sub} ELSE {})

\* C18: at most one submission is active at a time: no join request is
\* pending for a submission while the modal or a pending request belongs to
\* another.
OneSessionAtATime == Cardinality(ActiveSubs) <= 1

\* C19: whenever the process modal opens, the stage is joining and the
\* progress is 0, whatever the session before ended in.
SessionStartsAtJoining ==
    [][(~showProcessModal /\ showProcessModal') =>
          (currentStep' = "joining" /\ progress' = 0)]_vars

-----------------------------------------------------------------------------
(* The store and malformed data *)

\* C20: saveMeeting called when the stored history is malformed (text that
\* does not parse, or JSON that is no array) does not throw and leaves a
\* well-formed list of one record.
MalformedHistoryHeals ==
    [][(lastEvent'.type = "saveMeeting"
          /\ storage.meetings.kind \in {"text", "nonarray"}) =>
          /\ ~lastEvent'.threw
          /\ storage'.meetings.kind = "json"
          /\ Len(getMeetings(storage')) = 1]_vars

\* C21: saveMeeting called when setItem throws does not throw.
WriteFailureIsNotFatal ==
    (lastEvent.type = "saveMeeting" /\ setItemThrows(storage)) => ~lastEvent.threw

-----------------------------------------------------------------------------
(* Polling to the end *)

\* 'completed' was handled: the stage is completed, onComplete has run, the
\* modal is closed and no timer is left
PollingDone ==
    /\ lastEvent.type = "poll"
    /\ lastEvent.status = "completed"
    /\ currentStep = "completed"
    /\ session.onCompleteCalls >= 1
    /\ ~showProcessModal
    /\ activeIntervals = {}

\* C22: while the process modal is open a timer is running; and once it
\* is open, the time comes when 'completed' has been handled: the stage is
\* completed, onComplete has run and no timer is left.
PollsUntilCompleted ==
    /\ [](showProcessModal => effectInterval \in activeIntervals)
    /\ (showProcessModal ~> PollingDone)

-----------------------------------------------------------------------------
(* The user profile *)

\* C23: the stored profile's name has no blanks around it and is not empty;
\* and after the name modal's submit, the stored name is the typed name
\* without the blanks around it, and nothing is stored for a name that is
\* empty without them.
TrimmedNameStored ==
    /\ hasUser(storage) =>
          /\ getUser(storage)[1].name # <<>>
          /\ getUser(storage)[1].name = Trim(getUser(storage)[1].name)
    /\ lastEvent.type = "name" =>
          IF Trim(lastEvent.name) = <<>>
          THEN ~hasUser(storage)
          ELSE hasUser(storage) => getUser(storage)[1].name = Trim(lastEvent.name)

\* a name typed with a blank before it was stored
PaddedNameStored ==
    /\ lastEvent.type = "name"
    /\ lastEvent.name # Trim(lastEvent.name)
    /\ hasUser(storage)
    /\ userName = Trim(lastEvent.name)

\* C24: there is at most one profile, and hasUser() is true exactly when
\* getUser() returns one; after saveUser(name) the profile is the one of
\* that call, whatever was stored before; after clearUser() there is none,
\* and none appears until saveUser is called.
OneProfile ==
    /\ [](/\ Len(getUser(storage)) <= 1
          /\ hasUser(storage) <=> getUser(storage) # <<>>
          /\ lastEvent.type = "clearUser" =>
                getUser(storage) = <<>> /\ ~hasUser(storage)
          /\ (lastEvent.type = "saveUser" /\ ~lastEvent.threw) =>
                getUser(storage) = <<[name |-> Trim(lastEvent.name), savedAt |-> now]>>)
    /\ [][(~hasUser(storage) /\ lastEvent'.type # "saveUser") =>
             ~hasUser(storage')]_vars

\* a profile was saved, a meeting was saved under its name, and the
\* profile was cleared
ProfileCleared ==
    /\ lastEvent.type = "clearUser"
    /\ ~hasUser(storage)
    /\ getMeetings(storage) # <<>>
    /\ getMeetings(storage)[1].userName = << <<"B", "o">> >>

OwnerIsCurrentProfile ==
    JustSaved =>
        getMeetings(storage)[1].userName =
            IF storage.user.kind = "json" THEN <<storage.user.value[1].name>> ELSE <<>>

\* a meeting was saved under a profile's name, and then another while the
\* user item did not parse
SavedWithAndWithoutOwner ==
    /\ JustSaved
    /\ storage.user.kind = "text"
    /\ Len(getMeetings(storage)) = 2
    /\ getMeetings(storage)[1].userName = <<>>
    /\ getMeetings(storage)[2].userName = << <<"A", "l">> >>

-----------------------------------------------------------------------------
(* The stage and the timers *)

\* C27: once the stage is completed, no poll result that comes in later
\* changes the stage or the progress.
CompletedIsAbsorbing ==
    [][(currentStep = "completed" /\ lastEvent'.type = "poll") =>
          (currentStep' = "completed" /\ progress' = 100)]_vars

\* C28: at most one timer is active, it is the one the effect's last run
\* created, and none is active while the process modal is closed.
AtMostOneTimer ==
    /\ Cardinality(activeIntervals) <= 1
    /\ activeIntervals \subseteq {effectInterval}
    /\ ~showProcessModal => activeIntervals = {}

\* the effect ran again while a poll of its first timer was pending: the
\* first timer is gone and the second is running
TimerReplaced ==
    /\ showProcessModal
    /\ polls[1] > 0
    /\ effectInterval = 2
    /\ activeIntervals = {2}

-----------------------------------------------------------------------------
(* The two items of the storage *)

\* C29: saveMeeting leaves the user item as it is, saveUser and clearUser
\* leave the meetings item as it is, and the getters leave both.
StoresAreIndependent ==
    [][/\ lastEvent'.type = "saveMeeting" => storage'.user = storage.user
       /\ lastEvent'.type \in {"saveUser", "clearUser"} =>
             storage'.meetings = storage.meetings
       /\ lastEvent'.type = "read" => storage' = storage]_vars

\* a profile was saved while the history held a record
ProfileSavedNextToHistory ==
    /\ lastEvent.type = "saveUser"
    /\ ~lastEvent.threw
    /\ getMeetings(storage) # <<>>

\* C30: on the options, new-meeting and existing-meeting screens a user
\* profile is stored.
ProfileBehindOptions ==
    currentState \in {"options", "new-meeting", "existing-meeting"}
        => storage.user.kind = "json"

\* a returning user at the existing-meeting screen
UserAtExistingMeeting ==
    /\ currentState = "existing-meeting"
    /\ storage.user.kind = "json"
    /\ savedMeetings # <<>>

====
